---- MODULE Spec2Model ----
(***************************************************************************)
(* Model of contracts/RockPaperScissors.sol: the game registry, the        *)
(* lifecycle state machine, the encrypted-move commitment store, the       *)
(* homomorphic winner evaluation and the decryption request/callback       *)
(* correlation layer.                                                      *)
(*                                                                         *)
(* An encrypted handle (euint8, ebool) is modelled by the value it         *)
(* encrypts: the contract never branches on it, it only stores handles and *)
(* combines them with FHE.eq / FHE.and / FHE.or.  Every transaction is one *)
(* atomic step; a reverted transaction leaves the storage unchanged and    *)
(* is recorded in `last`.                                                  *)
(***************************************************************************)
EXTENDS Integers, Sequences, FiniteSets, TLC

\* ------------------------------------------------------------------ bounds
\* Number of games the multi-game specification lets createGame allocate.
MaxGames == 2
\* Largest plaintext a submitted ciphertext hides in the one-game
\* specification: the contract applies no range check, so 3 is accepted.
MaxMove == 3

\* ------------------------------------------------- enum GameStatus (l.13-19)
WaitingForPlayers == 0
WaitingForMoves == 1
MovesCommitted == 2
DecryptionInProgress == 3
ResultsDecrypted == 4

\* address(0): the unset address.
ZeroAddress == 0

\* Storage slots and request ids that the model keeps: one more than can be
\* allocated, so a never-created game and a never-issued id always exist.
AllGameIds == 0..MaxGames
ReqIds == 0..MaxGames

\* Externally owned accounts (msg.sender is never address(0)).
Users == {1, 2, 3}
\* address(this), distinct from every account.
ThisContract == 4

VARIABLES
  games,              \* mapping(uint256 => Game) games
  requestIdToGameId,  \* mapping(uint256 => uint256) requestIdToGameId
  gameCounter,        \* uint256 gameCounter
  counterRequest,     \* FHE library: id the next FHE.requestDecryption returns
  requestedHandles,   \* FHE library: the two handles submitted under each id
  acl,                \* FHE ACL: persistent grants on each game's move handles
  last,               \* outcome of the last transaction
  ui                  \* one user's interface: React state of game creation

vars == <<games, requestIdToGameId, gameCounter, counterRequest,
          requestedHandles, acl, last, ui>>

storage == <<games, requestIdToGameId, gameCounter, counterRequest,
             requestedHandles, acl>>

\* ------------------------------------------------------------ FHE operators
asEuint8(v) == v % 256
FHE_eq(a, b) == (a = b)
FHE_and(a, b) == (a /\ b)
FHE_or(a, b) == (a \/ b)

\* ------------------------------------------------------- struct Game (l.21)
\* The zero value of a storage slot never written.  createdAt
\* (block.timestamp) is written by createGame and read nowhere; it is left
\* out.
EmptyGame ==
  [player1 |-> ZeroAddress, player2 |-> ZeroAddress,
   encryptedMove1 |-> 0, encryptedMove2 |-> 0,
   player1Committed |-> FALSE, player2Committed |-> FALSE,
   status |-> WaitingForPlayers, requestId |-> 0,
   isDraw |-> FALSE, player1Wins |-> FALSE, resultsDecrypted |-> FALSE]

\* The record createGame stores (l.57-70).
NewGame(sender) ==
  [player1 |-> sender, player2 |-> ZeroAddress,
   encryptedMove1 |-> asEuint8(0), encryptedMove2 |-> asEuint8(0),
   player1Committed |-> FALSE, player2Committed |-> FALSE,
   status |-> WaitingForPlayers, requestId |-> 0,
   isDraw |-> FALSE, player1Wins |-> FALSE, resultsDecrypted |-> FALSE]

NoGrants == [move1 |-> {}, move2 |-> {}]

\* ------------------------------------------------------ transaction outcome
\* op: the function called; ok: FALSE when it reverted; events: what it
\* emitted; grants: the FHE.allowTransient grants it made on the two result
\* handles, as <<gameId, account>>; ret: the values it returned.
Reverted(op) ==
  [op |-> op, ok |-> FALSE, events |-> <<>>, grants |-> {}, ret |-> <<>>]
Success(op, evs, gr) ==
  [op |-> op, ok |-> TRUE, events |-> evs, grants |-> gr, ret |-> <<>>]
Returned(op, evs, values) ==
  [op |-> op, ok |-> TRUE, events |-> evs, grants |-> {}, ret |-> values]

Revert(op) ==
  /\ last' = Reverted(op)
  /\ UNCHANGED storage

\* The interface of a connected wallet at the menu (game-interface.tsx
\* l.150-158, l.400-401): no game adopted, not waiting for a creation, no
\* counter recorded, no createGame transaction under way.  An absent value
\* (null) is the empty sequence.
InitialInterface ==
  [address |-> ZeroAddress, gameState |-> "menu", currentGameId |-> <<>>,
   waitingForGameCreation |-> FALSE, lastGameCounter |-> <<>>,
   createGameTx |-> "none"]

Init ==
  /\ ui = InitialInterface
  /\ games = [g \in AllGameIds |-> EmptyGame]
  /\ requestIdToGameId = [r \in ReqIds |-> 0]
  /\ gameCounter = 0
  /\ counterRequest = 0
  /\ requestedHandles = [r \in ReqIds |-> <<>>]
  /\ acl = [g \in AllGameIds |-> NoGrants]
  /\ last = Success("constructor", <<>>, {})

\* ------------------------------------------------------ createGame (l.54-78)
\* limit caps the allocation counter, which is unbounded in the contract.
\* Mutant: the counter is read but not incremented.
CreateGame_NoIncrement(sender, limit) ==
  /\ gameCounter < limit
  /\ LET gameId == gameCounter IN
       /\ gameCounter' = gameCounter
       /\ games' = [games EXCEPT ![gameId] = NewGame(sender)]
       /\ acl' = [acl EXCEPT ![gameId] =
                    [move1 |-> {ThisContract}, move2 |-> {ThisContract}]]
       /\ last' = Returned("createGame", <<<<"GameCreated", gameId, sender>>>>,
                           <<gameId>>)
  /\ UNCHANGED <<requestIdToGameId, counterRequest, requestedHandles>>

CreateGame(sender, limit) ==
  /\ gameCounter < limit
  /\ LET gameId == gameCounter IN
       /\ gameCounter' = gameCounter + 1
       /\ games' = [games EXCEPT ![gameId] = NewGame(sender)]
       /\ acl' = [acl EXCEPT ![gameId] =
                    [move1 |-> {ThisContract}, move2 |-> {ThisContract}]]
       /\ last' = Returned("createGame", <<<<"GameCreated", gameId, sender>>>>,
                           <<gameId>>)
  /\ UNCHANGED <<requestIdToGameId, counterRequest, requestedHandles>>

\* -------------------------------------------------------- joinGame (l.82-93)
\* Mutant: the "already has two players" and the status requires are
\* missing.
JoinGame_NoSeatCheck(sender, gameId) ==
  LET game == games[gameId] IN
  IF /\ game.player1 # ZeroAddress
     /\ game.player1 # sender
  THEN /\ games' = [games EXCEPT ![gameId].player2 = sender,
                                 ![gameId].status = WaitingForMoves]
       /\ last' = Success("joinGame", <<<<"PlayerJoined", gameId, sender>>>>, {})
       /\ UNCHANGED <<requestIdToGameId, gameCounter, counterRequest,
                      requestedHandles, acl>>
  ELSE Revert("joinGame")

\* Mutant: the "Cannot play against yourself" require is missing.
JoinGame_NoSelfPlayCheck(sender, gameId) ==
  LET game == games[gameId] IN
  IF /\ game.player1 # ZeroAddress
     /\ game.player2 = ZeroAddress
     /\ game.status = WaitingForPlayers
  THEN /\ games' = [games EXCEPT ![gameId].player2 = sender,
                                 ![gameId].status = WaitingForMoves]
       /\ last' = Success("joinGame", <<<<"PlayerJoined", gameId, sender>>>>, {})
       /\ UNCHANGED <<requestIdToGameId, gameCounter, counterRequest,
                      requestedHandles, acl>>
  ELSE Revert("joinGame")

JoinGame(sender, gameId) ==
  LET game == games[gameId] IN
  IF /\ game.player1 # ZeroAddress
     /\ game.player2 = ZeroAddress
     /\ game.player1 # sender
     /\ game.status = WaitingForPlayers
  THEN /\ games' = [games EXCEPT ![gameId].player2 = sender,
                                 ![gameId].status = WaitingForMoves]
       /\ last' = Success("joinGame", <<<<"PlayerJoined", gameId, sender>>>>, {})
       /\ UNCHANGED <<requestIdToGameId, gameCounter, counterRequest,
                      requestedHandles, acl>>
  ELSE Revert("joinGame")

\* ------------------------------------------------------- makeMove (l.99-133)
\* plain is the value behind the submitted ciphertext; proofOk is whether
\* FHE.fromExternal accepts (encryptedMove, inputProof).
\* Mutant: the status is never advanced to MovesCommitted (l.130-132
\* missing).
MakeMoveGame_NoStatusAdvance(game, sender, plain) ==
  IF sender = game.player1
  THEN [game EXCEPT !.encryptedMove1 = asEuint8(plain),
                    !.player1Committed = TRUE]
  ELSE [game EXCEPT !.encryptedMove2 = asEuint8(plain),
                    !.player2Committed = TRUE]

\* Mutant: the status advances as soon as either player has committed.
MakeMoveGame_EitherCommitted(game, sender, plain) ==
  LET stored ==
        IF sender = game.player1
        THEN [game EXCEPT !.encryptedMove1 = asEuint8(plain),
                          !.player1Committed = TRUE]
        ELSE [game EXCEPT !.encryptedMove2 = asEuint8(plain),
                          !.player2Committed = TRUE]
  IN IF stored.player1Committed \/ stored.player2Committed
     THEN [stored EXCEPT !.status = MovesCommitted]
     ELSE stored

MakeMoveGame(game, sender, plain) ==
  LET stored ==
        IF sender = game.player1
        THEN [game EXCEPT !.encryptedMove1 = asEuint8(plain),
                          !.player1Committed = TRUE]
        ELSE [game EXCEPT !.encryptedMove2 = asEuint8(plain),
                          !.player2Committed = TRUE]
  IN IF stored.player1Committed /\ stored.player2Committed
     THEN [stored EXCEPT !.status = MovesCommitted]
     ELSE stored

\* Mutant: the move is looked at in the clear and refused unless it is
\* rock, paper or scissors.
MakeMove_RangeChecked(sender, gameId, plain, proofOk) ==
  LET game == games[gameId] IN
  IF /\ game.status = WaitingForMoves
     /\ (sender = game.player1 \/ sender = game.player2)
     /\ proofOk
     /\ plain \in {0, 1, 2}
     /\ IF sender = game.player1
        THEN ~game.player1Committed
        ELSE ~game.player2Committed
  THEN /\ games' = [games EXCEPT ![gameId] = MakeMoveGame(game, sender, plain)]
       /\ acl' = [acl EXCEPT ![gameId] =
                    IF sender = game.player1
                    THEN [@ EXCEPT !.move1 = {ThisContract}]
                    ELSE [@ EXCEPT !.move2 = {ThisContract}]]
       /\ last' = Success("makeMove", <<<<"MoveMade", gameId, sender,
                                         sender = game.player1>>>>, {})
       /\ UNCHANGED <<requestIdToGameId, gameCounter, counterRequest,
                      requestedHandles>>
  ELSE Revert("makeMove")

\* Mutant: the outcome of FHE.fromExternal is ignored, a move with a rejected
\* proof is stored.
MakeMove_IgnoresProof(sender, gameId, plain, proofOk) ==
  LET game == games[gameId] IN
  IF /\ game.status = WaitingForMoves
     /\ (sender = game.player1 \/ sender = game.player2)
     /\ IF sender = game.player1
        THEN ~game.player1Committed
        ELSE ~game.player2Committed
  THEN /\ games' = [games EXCEPT ![gameId] = MakeMoveGame(game, sender, plain)]
       /\ acl' = [acl EXCEPT ![gameId] =
                    IF sender = game.player1
                    THEN [@ EXCEPT !.move1 = {ThisContract}]
                    ELSE [@ EXCEPT !.move2 = {ThisContract}]]
       /\ last' = Success("makeMove", <<<<"MoveMade", gameId, sender,
                                         sender = game.player1>>>>, {})
       /\ UNCHANGED <<requestIdToGameId, gameCounter, counterRequest,
                      requestedHandles>>
  ELSE Revert("makeMove")

\* Mutant: the two "already committed" requires are missing.
MakeMove_NoCommittedCheck(sender, gameId, plain, proofOk) ==
  LET game == games[gameId] IN
  IF /\ game.status = WaitingForMoves
     /\ (sender = game.player1 \/ sender = game.player2)
     /\ proofOk
  THEN /\ games' = [games EXCEPT ![gameId] = MakeMoveGame(game, sender, plain)]
       /\ acl' = [acl EXCEPT ![gameId] =
                    IF sender = game.player1
                    THEN [@ EXCEPT !.move1 = {ThisContract}]
                    ELSE [@ EXCEPT !.move2 = {ThisContract}]]
       /\ last' = Success("makeMove", <<<<"MoveMade", gameId, sender,
                                         sender = game.player1>>>>, {})
       /\ UNCHANGED <<requestIdToGameId, gameCounter, counterRequest,
                      requestedHandles>>
  ELSE Revert("makeMove")

\* Mutant: the duplicate-commit check comes after the store and gives up
\* without undoing it.
MakeMove_PartialWrite(sender, gameId, plain, proofOk) ==
  LET game == games[gameId] IN
  IF /\ game.status = WaitingForMoves
     /\ (sender = game.player1 \/ sender = game.player2)
     /\ proofOk
  THEN /\ games' = [games EXCEPT ![gameId] = MakeMoveGame(game, sender, plain)]
       /\ acl' = [acl EXCEPT ![gameId] =
                    IF sender = game.player1
                    THEN [@ EXCEPT !.move1 = {ThisContract}]
                    ELSE [@ EXCEPT !.move2 = {ThisContract}]]
       /\ last' = IF (IF sender = game.player1
                      THEN ~game.player1Committed
                      ELSE ~game.player2Committed)
                  THEN Success("makeMove", <<<<"MoveMade", gameId, sender,
                                               sender = game.player1>>>>, {})
                  ELSE Reverted("makeMove")
       /\ UNCHANGED <<requestIdToGameId, gameCounter, counterRequest,
                      requestedHandles>>
  ELSE Revert("makeMove")

MakeMove(sender, gameId, plain, proofOk) ==
  LET game == games[gameId] IN
  IF /\ game.status = WaitingForMoves
     /\ (sender = game.player1 \/ sender = game.player2)
     /\ proofOk
     /\ IF sender = game.player1
        THEN ~game.player1Committed
        ELSE ~game.player2Committed
  THEN /\ games' = [games EXCEPT ![gameId] = MakeMoveGame(game, sender, plain)]
       /\ acl' = [acl EXCEPT ![gameId] =
                    IF sender = game.player1
                    THEN [@ EXCEPT !.move1 = {ThisContract}]
                    ELSE [@ EXCEPT !.move2 = {ThisContract}]]
       /\ last' = Success("makeMove", <<<<"MoveMade", gameId, sender,
                                         sender = game.player1>>>>, {})
       /\ UNCHANGED <<requestIdToGameId, gameCounter, counterRequest,
                      requestedHandles>>
  ELSE Revert("makeMove")

\* ------------------------------------ winner evaluation (l.145-166)
IsDrawEncrypted(move1, move2) == FHE_eq(move1, move2)

\* Mutant: the third winning pair tests move2 against scissors, not paper.
Player1WinsEncrypted_WrongPair(move1, move2) ==
  LET rockBeatsScissors ==
        FHE_and(FHE_eq(move1, asEuint8(0)), FHE_eq(move2, asEuint8(2)))
      paperBeatsRock ==
        FHE_and(FHE_eq(move1, asEuint8(1)), FHE_eq(move2, asEuint8(0)))
      scissorsBeatsPaper ==
        FHE_and(FHE_eq(move1, asEuint8(2)), FHE_eq(move2, asEuint8(2)))
  IN FHE_or(FHE_or(rockBeatsScissors, paperBeatsRock), scissorsBeatsPaper)

Player1WinsEncrypted(move1, move2) ==
  LET move1IsRock == FHE_eq(move1, asEuint8(0))
      move2IsScissors == FHE_eq(move2, asEuint8(2))
      rockBeatsScissors == FHE_and(move1IsRock, move2IsScissors)
      move1IsPaper == FHE_eq(move1, asEuint8(1))
      move2IsRock == FHE_eq(move2, asEuint8(0))
      paperBeatsRock == FHE_and(move1IsPaper, move2IsRock)
      move1IsScissors == FHE_eq(move1, asEuint8(2))
      move2IsPaper == FHE_eq(move2, asEuint8(1))
      scissorsBeatsPaper == FHE_and(move1IsScissors, move2IsPaper)
  IN FHE_or(FHE_or(rockBeatsScissors, paperBeatsRock), scissorsBeatsPaper)

\* ------------------------------------ requestGameResolution (l.137-183)
\* FHE.requestDecryption hands out the ids 0, 1, 2, ... and keeps the handles
\* it was given under the id; allowTransient grants last for the transaction.
\* Mutant: the id is stored in the game but not in requestIdToGameId.
RequestGameResolution_NoTableWrite(sender, gameId) ==
  LET game == games[gameId] IN
  IF /\ game.status = MovesCommitted
     /\ (sender = game.player1 \/ sender = game.player2)
  THEN LET requestId == counterRequest
       IN /\ counterRequest' = counterRequest + 1
          /\ requestedHandles' =
               [requestedHandles EXCEPT ![requestId] =
                  <<IsDrawEncrypted(game.encryptedMove1, game.encryptedMove2),
                    Player1WinsEncrypted(game.encryptedMove1,
                                         game.encryptedMove2)>>]
          /\ games' = [games EXCEPT ![gameId].requestId = requestId,
                                    ![gameId].status = DecryptionInProgress]
          /\ last' = Success("requestGameResolution",
                             <<<<"DecryptionRequested", gameId, requestId>>>>,
                             {<<gameId, sender>>})
          /\ UNCHANGED <<requestIdToGameId, gameCounter, acl>>
  ELSE Revert("requestGameResolution")

\* Mutant: a pending game is accepted again (status >= MovesCommitted, short
\* of ResultsDecrypted).
RequestGameResolution_AcceptsPending(sender, gameId) ==
  LET game == games[gameId] IN
  IF /\ game.status \in {MovesCommitted, DecryptionInProgress}
     /\ (sender = game.player1 \/ sender = game.player2)
  THEN LET requestId == counterRequest
       IN /\ counterRequest' = counterRequest + 1
          /\ requestedHandles' =
               [requestedHandles EXCEPT ![requestId] =
                  <<IsDrawEncrypted(game.encryptedMove1, game.encryptedMove2),
                    Player1WinsEncrypted(game.encryptedMove1,
                                         game.encryptedMove2)>>]
          /\ games' = [games EXCEPT ![gameId].requestId = requestId,
                                    ![gameId].status = DecryptionInProgress]
          /\ requestIdToGameId' =
               [requestIdToGameId EXCEPT ![requestId] = gameId]
          /\ last' = Success("requestGameResolution",
                             <<<<"DecryptionRequested", gameId, requestId>>>>,
                             {<<gameId, sender>>})
          /\ UNCHANGED <<gameCounter, acl>>
  ELSE Revert("requestGameResolution")

\* Mutant: the id is recorded in the table but not in the game (l.178
\* missing).
RequestGameResolution_NoRequestIdStore(sender, gameId) ==
  LET game == games[gameId] IN
  IF /\ game.status = MovesCommitted
     /\ (sender = game.player1 \/ sender = game.player2)
  THEN LET requestId == counterRequest
       IN /\ counterRequest' = counterRequest + 1
          /\ requestedHandles' =
               [requestedHandles EXCEPT ![requestId] =
                  <<IsDrawEncrypted(game.encryptedMove1, game.encryptedMove2),
                    Player1WinsEncrypted(game.encryptedMove1,
                                         game.encryptedMove2)>>]
          /\ games' = [games EXCEPT ![gameId].status = DecryptionInProgress]
          /\ requestIdToGameId' =
               [requestIdToGameId EXCEPT ![requestId] = gameId]
          /\ last' = Success("requestGameResolution",
                             <<<<"DecryptionRequested", gameId, requestId>>>>,
                             {<<gameId, sender>>})
          /\ UNCHANGED <<gameCounter, acl>>
  ELSE Revert("requestGameResolution")

\* Mutant: the "Not a player in this game" require is missing.
RequestGameResolution_AnyCaller(sender, gameId) ==
  LET game == games[gameId] IN
  IF game.status = MovesCommitted
  THEN LET requestId == counterRequest
       IN /\ counterRequest' = counterRequest + 1
          /\ requestedHandles' =
               [requestedHandles EXCEPT ![requestId] =
                  <<IsDrawEncrypted(game.encryptedMove1, game.encryptedMove2),
                    Player1WinsEncrypted(game.encryptedMove1,
                                         game.encryptedMove2)>>]
          /\ games' = [games EXCEPT ![gameId].requestId = requestId,
                                    ![gameId].status = DecryptionInProgress]
          /\ requestIdToGameId' =
               [requestIdToGameId EXCEPT ![requestId] = gameId]
          /\ last' = Success("requestGameResolution",
                             <<<<"DecryptionRequested", gameId, requestId>>>>,
                             {<<gameId, sender>>})
          /\ UNCHANGED <<gameCounter, acl>>
  ELSE Revert("requestGameResolution")

\* Mutant: the status is left at MovesCommitted (l.179 missing).
RequestGameResolution_NoStatusAdvance(sender, gameId) ==
  LET game == games[gameId] IN
  IF /\ game.status = MovesCommitted
     /\ (sender = game.player1 \/ sender = game.player2)
  THEN LET requestId == counterRequest
       IN /\ counterRequest' = counterRequest + 1
          /\ requestedHandles' =
               [requestedHandles EXCEPT ![requestId] =
                  <<IsDrawEncrypted(game.encryptedMove1, game.encryptedMove2),
                    Player1WinsEncrypted(game.encryptedMove1,
                                         game.encryptedMove2)>>]
          /\ games' = [games EXCEPT ![gameId].requestId = requestId]
          /\ requestIdToGameId' =
               [requestIdToGameId EXCEPT ![requestId] = gameId]
          /\ last' = Success("requestGameResolution",
                             <<<<"DecryptionRequested", gameId, requestId>>>>,
                             {<<gameId, sender>>})
          /\ UNCHANGED <<gameCounter, acl>>
  ELSE Revert("requestGameResolution")

RequestGameResolution(sender, gameId) ==
  LET game == games[gameId] IN
  IF /\ game.status = MovesCommitted
     /\ (sender = game.player1 \/ sender = game.player2)
  THEN LET isDrawEncrypted ==
             IsDrawEncrypted(game.encryptedMove1, game.encryptedMove2)
           player1WinsEncrypted ==
             Player1WinsEncrypted(game.encryptedMove1, game.encryptedMove2)
           requestId == counterRequest
       IN /\ counterRequest' = counterRequest + 1
          /\ requestedHandles' =
               [requestedHandles EXCEPT ![requestId] =
                  <<isDrawEncrypted, player1WinsEncrypted>>]
          /\ games' = [games EXCEPT ![gameId].requestId = requestId,
                                    ![gameId].status = DecryptionInProgress]
          /\ requestIdToGameId' =
               [requestIdToGameId EXCEPT ![requestId] = gameId]
          /\ last' = Success("requestGameResolution",
                             <<<<"DecryptionRequested", gameId, requestId>>>>,
                             {<<gameId, sender>>})
          /\ UNCHANGED <<gameCounter, acl>>
  ELSE Revert("requestGameResolution")

\* ----------------------------------- gameResolutionCallback (l.189-219)
\* cleartexts is the pair abi.decode yields; sigOk is whether
\* FHE.checkSignatures accepts (requestId, cleartexts, decryptionProof).  The
\* verifier is a library outside the contract: anybody may call the function
\* with any payload, and both outcomes of the check are explored for each.
\* The oracle's own delivery is the call with an issued id, the values of
\* requestedHandles[requestId] as cleartexts, and sigOk = TRUE.
\* Mutant: the two players are swapped in the winner selection.
Winner_Swapped(game) ==
  IF ~game.isDraw
  THEN (IF game.player1Wins THEN game.player2 ELSE game.player1)
  ELSE ZeroAddress

Winner(game) ==
  IF ~game.isDraw
  THEN (IF game.player1Wins THEN game.player1 ELSE game.player2)
  ELSE ZeroAddress

\* The lookup and its require (l.195-196).
RequestIdFound(requestId) ==
  LET gameId == requestIdToGameId[requestId] IN
  gameId # 0 \/ games[0].requestId = requestId

\* Mutant: the results are stored but resultsDecrypted is not set (l.209
\* missing).
GameResolutionCallback_NoResultsFlag(requestId, cleartexts, sigOk) ==
  LET gameId == requestIdToGameId[requestId] IN
  IF /\ RequestIdFound(requestId)
     /\ sigOk
  THEN LET game == [games[gameId] EXCEPT !.isDraw = cleartexts[1],
                                         !.player1Wins = cleartexts[2],
                                         !.status = ResultsDecrypted]
       IN /\ games' = [games EXCEPT ![gameId] = game]
          /\ last' = Success("gameResolutionCallback",
                             <<<<"GameFinished", gameId, Winner(game),
                                cleartexts[1]>>>>, {})
          /\ UNCHANGED <<requestIdToGameId, gameCounter, counterRequest,
                         requestedHandles, acl>>
  ELSE Revert("gameResolutionCallback")

\* Mutant: the unrestricted entry point, FHE.checkSignatures is not called.
GameResolutionCallback_NoSignatureCheck(requestId, cleartexts, sigOk) ==
  LET gameId == requestIdToGameId[requestId] IN
  IF RequestIdFound(requestId)
  THEN LET game == [games[gameId] EXCEPT !.isDraw = cleartexts[1],
                                         !.player1Wins = cleartexts[2],
                                         !.resultsDecrypted = TRUE,
                                         !.status = ResultsDecrypted]
       IN /\ games' = [games EXCEPT ![gameId] = game]
          /\ last' = Success("gameResolutionCallback",
                             <<<<"GameFinished", gameId, Winner(game),
                                cleartexts[1]>>>>, {})
          /\ UNCHANGED <<requestIdToGameId, gameCounter, counterRequest,
                         requestedHandles, acl>>
  ELSE Revert("gameResolutionCallback")

\* Mutant: the request id is used as the game id, the table is not read.
GameResolutionCallback_ByRequestId(requestId, cleartexts, sigOk) ==
  LET gameId == requestId IN
  IF /\ games[gameId].status = DecryptionInProgress
     /\ sigOk
  THEN LET game == [games[gameId] EXCEPT !.isDraw = cleartexts[1],
                                         !.player1Wins = cleartexts[2],
                                         !.resultsDecrypted = TRUE,
                                         !.status = ResultsDecrypted]
       IN /\ games' = [games EXCEPT ![gameId] = game]
          /\ last' = Success("gameResolutionCallback",
                             <<<<"GameFinished", gameId, Winner(game),
                                cleartexts[1]>>>>, {})
          /\ UNCHANGED <<requestIdToGameId, gameCounter, counterRequest,
                         requestedHandles, acl>>
  ELSE Revert("gameResolutionCallback")

GameResolutionCallback(requestId, cleartexts, sigOk) ==
  LET gameId == requestIdToGameId[requestId] IN
  IF /\ RequestIdFound(requestId)
     /\ sigOk
  THEN LET game == [games[gameId] EXCEPT !.isDraw = cleartexts[1],
                                         !.player1Wins = cleartexts[2],
                                         !.resultsDecrypted = TRUE,
                                         !.status = ResultsDecrypted]
       IN /\ games' = [games EXCEPT ![gameId] = game]
          /\ last' = Success("gameResolutionCallback",
                             <<<<"GameFinished", gameId, Winner(game),
                                cleartexts[1]>>>>, {})
          /\ UNCHANGED <<requestIdToGameId, gameCounter, counterRequest,
                         requestedHandles, acl>>
  ELSE Revert("gameResolutionCallback")

\* ------------------------------------------------------------ view functions
\* getGame (l.229-248): "revert" when the require fails.
getGame(gs, gameId) ==
  LET game == gs[gameId] IN
  IF game.player1 # ZeroAddress
  THEN <<game.player1, game.player2, game.status, game.player1Committed,
         game.player2Committed, game.resultsDecrypted>>
  ELSE <<"revert">>

\* Mutant: the "Results not yet decrypted" require is missing.
getGameResults_NoDecryptedCheck(gs, gameId) ==
  LET game == gs[gameId] IN
  IF game.player1 # ZeroAddress
  THEN <<game.isDraw, game.player1Wins, Winner(game)>>
  ELSE <<"revert">>

\* getGameResults (l.255-270): "revert" when a require fails.
getGameResults(gs, gameId) ==
  LET game == gs[gameId] IN
  IF game.player1 # ZeroAddress /\ game.resultsDecrypted
  THEN <<game.isDraw, game.player1Wins, Winner(game)>>
  ELSE <<"revert">>

\* Mutant: the status is not tested, only the two flags.
isGameReady_FlagsOnly(gs, gameId) ==
  LET game == gs[gameId] IN
  game.player1Committed /\ game.player2Committed

\* isGameReady (l.275-278)
isGameReady(gs, gameId) ==
  LET game == gs[gameId] IN
  game.player1Committed /\ game.player2Committed
    /\ game.status = MovesCommitted

\* getGameCounter (l.282-284) and getGameRequestId (l.289-291)
getGameCounter == gameCounter
getGameRequestId(gs, gameId) == gs[gameId].requestId

\* A call of a view function: the outcome is recorded, nothing is written.
\* getGame and getGameResults can fail (the one-element result "revert");
\* the other three have no require.
View(op, failed, result) ==
  /\ last' = IF failed THEN Reverted(op) ELSE Returned(op, <<>>, result)
  /\ UNCHANGED <<storage, ui>>

GetGame(gameId) ==
  LET result == getGame(games, gameId) IN
  View("getGame", Len(result) = 1, result)
GetGameResults(gameId) ==
  LET result == getGameResults(games, gameId) IN
  View("getGameResults", Len(result) = 1, result)
IsGameReady(gameId) ==
  View("isGameReady", FALSE, <<isGameReady(games, gameId)>>)
GetGameCounter == View("getGameCounter", FALSE, <<getGameCounter>>)
GetGameRequestId(gameId) ==
  View("getGameRequestId", FALSE, <<getGameRequestId(games, gameId)>>)

\* ------------- handleSubmitMove (components/game-interface.tsx l.612-803)
\* publicClient.simulateContract of makeMove (l.735-746): the call is run
\* against the current chain state and throws when it would revert.
simulateContract(gs, sender, gameId, proofOk) ==
  LET game == gs[gameId] IN
  /\ game.status = WaitingForMoves
  /\ (sender = game.player1 \/ sender = game.player2)
  /\ proofOk
  /\ IF sender = game.player1
     THEN ~game.player1Committed
     ELSE ~game.player2Committed

\* What the handler does, as <<"sent" or "aborted", the gameState it leaves
\* the interface in>>.  address is the connected account (ZeroAddress: none),
\* selected whether a move is selected, fetchOk whether refetchGame returned,
\* ctOk whether the ciphertext has 32 bytes, publicClient whether
\* usePublicClient gave a client, proofOk whether the contract would accept
\* the proof.
handleSubmitMove(gs, address, selected, gameId, fetchOk, ctOk, publicClient, proofOk) ==
  LET result == getGame(gs, gameId)
      onPlayer1 == result[1]
      onPlayer2 == result[2]
      onStatus == result[3]
      onP1Committed == result[4]
      onP2Committed == result[5]
      isSenderP1 == address = onPlayer1
  IN IF ~selected \/ address = ZeroAddress
     THEN <<"aborted", "unchanged">>
     ELSE IF ~fetchOk THEN <<"aborted", "waiting-for-move">>
     ELSE IF Len(result) < 6 THEN <<"aborted", "waiting-for-move">>
     ELSE IF onPlayer2 = ZeroAddress
     THEN <<"aborted", "waiting-for-opponent">>
     ELSE IF address # onPlayer1 /\ address # onPlayer2
     THEN <<"aborted", "waiting-for-opponent">>
     ELSE IF onStatus # 1
     THEN <<"aborted", IF onStatus = 0 THEN "waiting-for-opponent"
                       ELSE "waiting-for-result">>
     ELSE IF isSenderP1 /\ onP1Committed
     THEN <<"aborted", "waiting-for-opponent">>
     ELSE IF ~isSenderP1 /\ onP2Committed
     THEN <<"aborted", "waiting-for-opponent">>
     ELSE IF ~ctOk THEN <<"aborted", "waiting-for-move">>
     ELSE IF publicClient /\ ~simulateContract(gs, address, gameId, proofOk)
     THEN <<"aborted", "waiting-for-move">>
     ELSE <<"sent", "submitting-move">>

\* A click on "submit": the decision is recorded; the transaction, when
\* sent, is a later makeMove step.
HandleSubmitMove(address, selected, gameId, fetchOk, ctOk, publicClient, proofOk) ==
  /\ last' = Returned("handleSubmitMove", <<>>,
                      handleSubmitMove(games, address, selected, gameId,
                                       fetchOk, ctOk, publicClient, proofOk))
  /\ UNCHANGED <<storage, ui>>

\* --------------------------------- game creation in the interface (l.399-570)
\* handleCreateGame (l.536-570): without an address, or with a game in
\* progress, nothing happens; otherwise the interface starts waiting, forgets
\* the recorded counter and hands the createGame transaction to the wallet.
\* One creation at a time: the click is taken while no transaction of an
\* earlier click is under way.
HandleCreateGame(address) ==
  /\ ui.createGameTx = "none"
  /\ IF address = ZeroAddress
     THEN UNCHANGED ui
     ELSE IF ui.currentGameId # <<>> /\ ui.gameState # "menu"
     THEN UNCHANGED ui
     ELSE ui' = [ui EXCEPT !.address = address,
                           !.gameState = "creating",
                           !.waitingForGameCreation = TRUE,
                           !.lastGameCounter = <<>>,
                           !.createGameTx = "signing"]
  /\ UNCHANGED <<storage, last>>

\* useWriteContract onSuccess (l.170-174): the wallet has sent the
\* transaction; it is not mined yet.
CreateGameOnSuccess ==
  /\ ui.createGameTx = "signing"
  /\ ui' = [ui EXCEPT !.createGameTx = "sent",
                      !.waitingForGameCreation = TRUE]
  /\ UNCHANGED <<storage, last>>

\* useWriteContract onError (l.175-179): the transaction was not sent.
CreateGameOnError ==
  /\ ui.createGameTx = "signing"
  /\ ui' = [ui EXCEPT !.createGameTx = "none",
                      !.gameState = "menu",
                      !.waitingForGameCreation = FALSE]
  /\ UNCHANGED <<storage, last>>

\* The transaction sent at l.556-560 is mined: createGame with the user as
\* msg.sender.
MineCreateGame(limit) ==
  /\ ui.createGameTx = "sent"
  /\ CreateGame(ui.address, limit)
  /\ ui' = [ui EXCEPT !.createGameTx = "mined"]

\* One poll of the counter (useReadContract, enabled while waiting, l.404-412)
\* followed by the effect on its data (l.415-446).  The data is a bigint:
\* the value 0 is falsy and the effect skips it.
PollGameCounter ==
  /\ ui.waitingForGameCreation
  /\ LET currentCounter == gameCounter IN
     IF currentCounter # 0
     THEN IF ui.lastGameCounter # <<>> /\ currentCounter > ui.lastGameCounter[1]
          THEN ui' = [ui EXCEPT !.currentGameId = <<currentCounter - 1>>,
                                !.gameState = "waiting-for-opponent",
                                !.waitingForGameCreation = FALSE,
                                !.lastGameCounter = <<>>]
          ELSE IF ui.lastGameCounter = <<>>
          THEN ui' = [ui EXCEPT !.lastGameCounter = <<currentCounter>>]
          ELSE UNCHANGED ui
     ELSE UNCHANGED ui
  /\ UNCHANGED <<storage, last>>

\* --------------------------------------------------------------- behaviours
Cleartexts == BOOLEAN \X BOOLEAN

\* Every transaction any account (or the oracle, or anyone replaying or
\* forging a callback) can send, with at most `limit` games created by the
\* accounts in A submitting moves drawn from M.  No transaction touches the
\* state of the interface.
NextFor(limit, A, M) ==
  \/ \E sender \in A : CreateGame(sender, limit) /\ UNCHANGED ui
  \/ \E sender \in A, gameId \in 0..limit :
       JoinGame(sender, gameId) /\ UNCHANGED ui
  \/ \E sender \in A, gameId \in 0..limit, plain \in M, proofOk \in BOOLEAN :
       MakeMove(sender, gameId, plain, proofOk) /\ UNCHANGED ui
  \/ \E sender \in A, gameId \in 0..limit :
       RequestGameResolution(sender, gameId) /\ UNCHANGED ui
  \/ \E requestId \in 0..limit, cleartexts \in Cleartexts, sigOk \in BOOLEAN :
       GameResolutionCallback(requestId, cleartexts, sigOk) /\ UNCHANGED ui

\* Several games in flight, created and joined by two accounts.  No guard
\* and no assignment of the contract reads a move, so one move value (paper)
\* is enough here; SpecOne explores the move values.
Next == NextFor(MaxGames, {1, 2}, {1})
Spec == Init /\ [][Next]_vars

\* One game, three accounts (a bystander), every move value in 0..MaxMove.
NextOne == NextFor(1, Users, 0..MaxMove)
SpecOne == Init /\ [][NextOne]_vars

\* Two games, three accounts: a game next to another game, with an account
\* that plays in neither or in only one of them.
NextTwo == NextFor(2, Users, {1})
SpecTwo == Init /\ [][NextTwo]_vars

\* One game, three accounts, and anybody calling the view functions on the
\* two game ids 0 (the game) and 1 (never created).
NextView ==
  \/ NextFor(1, Users, {1})
  \/ \E gameId \in 0..1 : GetGame(gameId)
  \/ \E gameId \in 0..1 : GetGameResults(gameId)
  \/ \E gameId \in 0..1 : IsGameReady(gameId)
  \/ GetGameCounter
  \/ \E gameId \in 0..1 : GetGameRequestId(gameId)
SpecView == Init /\ [][NextView]_vars

\* One game, three accounts, and the interface of any of them (or of nobody
\* connected) running handleSubmitMove at any time.
NextUI ==
  \/ NextFor(1, Users, {1})
  \/ \E address \in Users \cup {ZeroAddress}, selected \in BOOLEAN,
        gameId \in 0..1, fetchOk \in BOOLEAN, ctOk \in BOOLEAN,
        publicClient \in BOOLEAN, proofOk \in BOOLEAN :
       HandleSubmitMove(address, selected, gameId, fetchOk, ctOk,
                        publicClient, proofOk)
SpecUI == Init /\ [][NextUI]_vars

\* Game creation: one user's interface next to the createGame calls of any
\* account (the user's other sessions included), up to three games.  The
\* chain mines a transaction that was sent, and the interface polls the
\* counter every two seconds while it waits (l.410): both are weakly fair.
NextCreate ==
  \/ \E address \in Users \cup {ZeroAddress} : HandleCreateGame(address)
  \/ CreateGameOnSuccess
  \/ CreateGameOnError
  \/ MineCreateGame(3)
  \/ PollGameCounter
  \/ \E sender \in Users : CreateGame(sender, 3) /\ UNCHANGED ui
FairCreate == WF_vars(MineCreateGame(3)) /\ WF_vars(PollGameCounter)
SpecCreate == Init /\ [][NextCreate]_vars /\ FairCreate

\* ------------------------------------------------------------------ helpers
\* The request ids FHE.requestDecryption has handed out so far.
Issued(requestId) == requestedHandles[requestId] # <<>>

\* ----------------------------------------------------------------- progress
\* The steps the participants and the oracle are assumed to take in the end:
\* somebody joins game g, player p submits a move with a valid proof, a
\* player requests the resolution, and the oracle delivers the decryption of
\* a pending request with its proof.
Joins(g) == \E sender \in {1, 2} : JoinGame(sender, g) /\ last'.ok /\ UNCHANGED ui
Moves(p, g) == MakeMove(p, g, 1, TRUE) /\ last'.ok /\ UNCHANGED ui
Requests(g) == \E sender \in {1, 2} : RequestGameResolution(sender, g) /\ last'.ok /\ UNCHANGED ui
Delivers(requestId) ==
  /\ Issued(requestId)
  /\ games[requestIdToGameId[requestId]].status = DecryptionInProgress
  /\ GameResolutionCallback(requestId, requestedHandles[requestId], TRUE)
  /\ UNCHANGED ui

\* Two games, two accounts, one move value, with those steps weakly fair:
\* each stays enabled until it or another step moves the game on.
NextLive == NextFor(2, {1, 2}, {1})
Fairness ==
  /\ \A g \in 0..1 : WF_vars(Joins(g))
  /\ \A g \in 0..1, p \in {1, 2} : WF_vars(Moves(p, g))
  /\ \A g \in 0..1 : WF_vars(Requests(g))
  /\ \A requestId \in 0..1 : WF_vars(Delivers(requestId))
SpecLive == Init /\ [][NextLive]_vars /\ Fairness

\* Moves of the three-way game and the pairs in which the first beats the
\* second.
ValidMoves == {0, 1, 2}
Beats == {<<0, 2>>, <<1, 0>>, <<2, 1>>}

BothCommitted(game) == game.player1Committed /\ game.player2Committed

\* The result fields a callback writes.
Results(game) ==
  <<game.isDraw, game.player1Wins, game.resultsDecrypted, game.status>>

\* What a game's record is outside the fields a callback writes.
Frame(game) ==
  [game EXCEPT !.isDraw = FALSE, !.player1Wins = FALSE,
               !.resultsDecrypted = FALSE, !.status = WaitingForPlayers]

\* ---------------------------------------------------------------------- C1
\* C1: once a callback has been applied for a request id and its game is
\* ResultsDecrypted, every later callback carrying that request id, with any
\* cleartext and any proof, reverts and leaves the game's results unchanged.
C1_ReplayRejected ==
  [][\A requestId \in ReqIds, cleartexts \in Cleartexts, sigOk \in BOOLEAN :
       LET gameId == requestIdToGameId[requestId] IN
       (/\ Issued(requestId)
        /\ games[gameId].requestId = requestId
        /\ games[gameId].status = ResultsDecrypted
        /\ GameResolutionCallback(requestId, cleartexts, sigOk))
       => (~last'.ok /\ Results(games'[gameId]) = Results(games[gameId]))]_vars

\* ---------------------------------------------------------------------- C2
\* C2: a callback whose request id no requestGameResolution has recorded
\* reverts and leaves games, gameCounter and requestIdToGameId unchanged, for
\* every such id (0 included) in every reachable state.
C2_UnknownRequestRejected ==
  [][\A requestId \in ReqIds, cleartexts \in Cleartexts, sigOk \in BOOLEAN :
       (~Issued(requestId)
        /\ GameResolutionCallback(requestId, cleartexts, sigOk))
       => (~last'.ok /\ UNCHANGED <<games, gameCounter, requestIdToGameId>>)]_vars

\* ---------------------------------------------------------------------- C3
\* C3: a game's status becomes ResultsDecrypted only in a callback step
\* taken while the game is DecryptionInProgress, and a callback that targets
\* a game in any other status reverts.
C3_OnlyFromDecryptionInProgress ==
  [][/\ \A gameId \in AllGameIds :
          (games'[gameId].status = ResultsDecrypted
           /\ games[gameId].status # ResultsDecrypted)
          => (games[gameId].status = DecryptionInProgress
              /\ last'.op = "gameResolutionCallback")
     /\ \A requestId \in ReqIds, cleartexts \in Cleartexts, sigOk \in BOOLEAN :
          (games[requestIdToGameId[requestId]].status # DecryptionInProgress
           /\ GameResolutionCallback(requestId, cleartexts, sigOk))
          => ~last'.ok]_vars

\* ---------------------------------------------------------------------- C4
\* C4: for every game whose resolution was requested with moves (m1, m2) in
\* {0,1,2} x {0,1,2}, the two handles submitted for decryption hold
\* isDraw = (m1 = m2) and player1Wins = ((m1, m2) is (0,2), (1,0) or (2,1)),
\* so a draw never counts as a win and the other three pairs give neither.
C4_WinnerEvaluation ==
  \A requestId \in ReqIds :
    Issued(requestId) =>
      LET game == games[requestIdToGameId[requestId]]
          m1 == game.encryptedMove1
          m2 == game.encryptedMove2
      IN (m1 \in ValidMoves /\ m2 \in ValidMoves) =>
           requestedHandles[requestId] = <<m1 = m2, <<m1, m2>> \in Beats>>

\* Scissors against paper has been evaluated: player 1 wins, no draw.
C4_Witness ==
  /\ Issued(0)
  /\ requestIdToGameId[0] = 0
  /\ games[0].encryptedMove1 = 2
  /\ games[0].encryptedMove2 = 1
  /\ requestedHandles[0] = <<FALSE, TRUE>>
  /\ last.op = "requestGameResolution"

\* ---------------------------------------------------------------------- C5
\* C5: when the oracle delivers, with a valid proof, the decryption of the
\* two handles requested for a game played with moves (m1, m2) in
\* {0,1,2} x {0,1,2}, getGameResults returns isDraw = (m1 = m2),
\* player1Wins = (m1 beats m2) and winner = none on a draw, else player1 if
\* player1Wins, else player2, and GameFinished carries that same winner.
C5_EndToEnd ==
  [][last'.op = "gameResolutionCallback" =>
     \A requestId \in ReqIds :
       LET gameId == requestIdToGameId[requestId]
           game == games[gameId]
           m1 == game.encryptedMove1
           m2 == game.encryptedMove2
           winner == IF m1 = m2 THEN ZeroAddress
                     ELSE IF <<m1, m2>> \in Beats THEN game.player1
                     ELSE game.player2
       IN (/\ Issued(requestId)
           /\ m1 \in ValidMoves /\ m2 \in ValidMoves
           /\ GameResolutionCallback(requestId, requestedHandles[requestId],
                                     TRUE))
          => /\ getGameResults(games', gameId)
                  = <<m1 = m2, <<m1, m2>> \in Beats, winner>>
             /\ last'.events = <<<<"GameFinished", gameId, winner, m1 = m2>>>>]_vars

\* Scenario A has been played to the end: rock against scissors, player 1
\* is reported as the winner by the event and by getGameResults.
C5_Witness ==
  /\ games[0].encryptedMove1 = 0
  /\ games[0].encryptedMove2 = 2
  /\ BothCommitted(games[0])
  /\ Issued(games[0].requestId)
  /\ last = Success("gameResolutionCallback",
                    <<<<"GameFinished", 0, games[0].player1, FALSE>>>>, {})
  /\ getGameResults(games, 0) = <<FALSE, TRUE, games[0].player1>>

\* ---------------------------------------------------------------------- C6
\* C6: in every reachable state a decryption request (and the read grant on
\* the two encrypted outputs) exists for a game only if both players have
\* committed, resultsDecrypted is true only if both have committed, and
\* until then nobody but the contract holds a grant on a move handle.
C6_Fairness ==
  \A gameId \in AllGameIds :
    LET game == games[gameId] IN
    /\ (\E requestId \in ReqIds :
          Issued(requestId) /\ requestIdToGameId[requestId] = gameId)
         => BothCommitted(game)
    /\ (\E grant \in last.grants : grant[1] = gameId) => BothCommitted(game)
    /\ game.status = DecryptionInProgress => BothCommitted(game)
    /\ game.resultsDecrypted => BothCommitted(game)
    /\ ~BothCommitted(game) =>
         (acl[gameId].move1 \cup acl[gameId].move2) \subseteq {ThisContract}

\* ---------------------------------------------------------------------- C7
\* C7: every step leaves the status of an existing game unchanged or moves
\* it to the immediate successor in the order WaitingForPlayers,
\* WaitingForMoves, MovesCommitted, DecryptionInProgress, ResultsDecrypted.
C7_StatusMonotone ==
  [][\A gameId \in AllGameIds :
       gameId < gameCounter =>
         \/ games'[gameId].status = games[gameId].status
         \/ games'[gameId].status = games[gameId].status + 1]_vars

\* ---------------------------------------------------------------------- C8
\* C8: an entry of requestIdToGameId is written only by a successful
\* requestGameResolution, for the id issued in that step, and never changes
\* afterwards; every game in DecryptionInProgress is the game its request id
\* maps to; every issued id maps to one game that holds it, and no two
\* issued ids map to the same game.
C8_TableInvariant ==
  /\ \A gameId \in AllGameIds :
       games[gameId].status = DecryptionInProgress =>
         /\ Issued(games[gameId].requestId)
         /\ requestIdToGameId[games[gameId].requestId] = gameId
  /\ \A requestId \in ReqIds :
       IF Issued(requestId)
       THEN /\ games[requestIdToGameId[requestId]].requestId = requestId
            /\ games[requestIdToGameId[requestId]].status
                 \in {DecryptionInProgress, ResultsDecrypted}
       ELSE requestIdToGameId[requestId] = 0
  /\ \A r1 \in ReqIds, r2 \in ReqIds :
       (Issued(r1) /\ Issued(r2) /\ r1 # r2)
       => requestIdToGameId[r1] # requestIdToGameId[r2]

C8_TableIntegrity ==
  /\ []C8_TableInvariant
  /\ [][\A requestId \in ReqIds :
          requestIdToGameId'[requestId] # requestIdToGameId[requestId]
          => /\ ~Issued(requestId)
             /\ last' = Success("requestGameResolution",
                                <<<<"DecryptionRequested",
                                    requestIdToGameId'[requestId],
                                    requestId>>>>,
                                last'.grants)
             /\ games'[requestIdToGameId'[requestId]].requestId = requestId]_vars

\* Game 1 requested first and got id 0, game 0 got id 1: both entries are
\* in the table, and the entry of id 0 is not the default.
C8_Witness ==
  /\ games[0].status = DecryptionInProgress
  /\ games[1].status = DecryptionInProgress
  /\ games[1].requestId = 0
  /\ games[0].requestId = 1
  /\ requestIdToGameId[0] = 1
  /\ requestIdToGameId[1] = 0

\* ---------------------------------------------------------------------- C9
\* C9: a callback whose payload fails the signature check reverts, whatever
\* the request id and the cleartexts, and writes nothing.
C9_AuthenticityMandatory ==
  [][last'.op = "gameResolutionCallback" =>
     \A requestId \in ReqIds, cleartexts \in Cleartexts :
       GameResolutionCallback(requestId, cleartexts, FALSE)
       => (last' = Reverted("gameResolutionCallback") /\ UNCHANGED storage)]_vars

\* A callback has just been rejected while game 0 was waiting for its
\* decryption, and the game is still waiting with no result stored.
C9_Witness ==
  /\ last = Reverted("gameResolutionCallback")
  /\ games[0].status = DecryptionInProgress
  /\ requestIdToGameId[games[0].requestId] = 0
  /\ ~games[0].resultsDecrypted

\* --------------------------------------------------------------------- C10
\* C10: in every state the callback of every issued request id passes the
\* lookup, whatever was delivered before; and a callback that carries an
\* issued id with a valid proof writes only the result fields and the status
\* of the game that issued the id, in whatever order the callbacks of
\* several pending games arrive; every other game's record, the counter and
\* the table are unchanged.
C10_Correlation ==
  /\ [](\A requestId \in ReqIds :
          Issued(requestId) => RequestIdFound(requestId))
  /\ [][(last'.op = "gameResolutionCallback" /\ last'.ok) =>
        \A requestId \in ReqIds, cleartexts \in Cleartexts :
          LET gameId == requestIdToGameId[requestId] IN
          (/\ Issued(requestId)
           /\ GameResolutionCallback(requestId, cleartexts, TRUE))
          => /\ last'.events[1][2] = gameId
             /\ games[gameId].requestId = requestId
             /\ Results(games'[gameId]) =
                  <<cleartexts[1], cleartexts[2], TRUE, ResultsDecrypted>>
             /\ Frame(games'[gameId]) = Frame(games[gameId])
             /\ \A other \in AllGameIds \ {gameId} :
                  games'[other] = games[other]
             /\ UNCHANGED <<requestIdToGameId, gameCounter>>]_vars

\* Out of order: two games were pending, the one holding the later id has
\* been resolved first while the other is still waiting, untouched.
C10_Witness ==
  \E g1 \in AllGameIds, g2 \in AllGameIds :
    /\ g1 # g2
    /\ games[g1].status = DecryptionInProgress
    /\ Issued(games[g1].requestId)
    /\ games[g2].status = ResultsDecrypted
    /\ Issued(games[g2].requestId)
    /\ requestIdToGameId[games[g2].requestId] = g2
    /\ games[g2].requestId > games[g1].requestId
    /\ ~games[g1].resultsDecrypted
    /\ last.op = "gameResolutionCallback" /\ last.ok
    /\ last.events[1][2] = g2

\* --------------------------------------------------------------------- C11
\* The caller's committed flag in a game; FALSE for an account that is
\* neither player.
CommittedBy(game, sender) ==
  \/ sender = game.player1 /\ game.player1Committed
  \/ sender = game.player2 /\ game.player2Committed

IsPlayer(game, sender) == sender = game.player1 \/ sender = game.player2

\* C11: a transaction that fails leaves every storage variable as it was and
\* emits no event and keeps no grant; and a call of joinGame, makeMove,
\* requestGameResolution or gameResolutionCallback that violates one of the
\* function's guards is such a failing transaction.
C11_AtomicFailure ==
  [][/\ ~last'.ok =>
          /\ UNCHANGED storage
          /\ last'.events = <<>>
          /\ last'.grants = {}
     /\ last'.op = "joinGame" =>
          \A sender \in Users, gameId \in AllGameIds :
            LET game == games[gameId] IN
            (/\ JoinGame(sender, gameId)
             /\ \/ game.player1 = ZeroAddress
                \/ game.player2 # ZeroAddress
                \/ game.player1 = sender
                \/ game.status # WaitingForPlayers)
            => ~last'.ok
     /\ last'.op = "makeMove" =>
          \A sender \in Users, gameId \in AllGameIds,
             plain \in 0..MaxMove, proofOk \in BOOLEAN :
            LET game == games[gameId] IN
            (/\ MakeMove(sender, gameId, plain, proofOk)
             /\ \/ game.status # WaitingForMoves
                \/ ~IsPlayer(game, sender)
                \/ ~proofOk
                \/ CommittedBy(game, sender))
            => ~last'.ok
     /\ last'.op = "requestGameResolution" =>
          \A sender \in Users, gameId \in AllGameIds :
            LET game == games[gameId] IN
            (/\ RequestGameResolution(sender, gameId)
             /\ \/ game.status # MovesCommitted
                \/ ~IsPlayer(game, sender))
            => ~last'.ok
     /\ last'.op = "gameResolutionCallback" =>
          \A requestId \in ReqIds, cleartexts \in Cleartexts,
             sigOk \in BOOLEAN :
            (/\ GameResolutionCallback(requestId, cleartexts, sigOk)
             /\ \/ ~RequestIdFound(requestId)
                \/ ~sigOk)
            => ~last'.ok]_vars

\* A player who has committed submits again while the other has not: the
\* call has failed, the first move and the status are as they were.
C11_Witness ==
  /\ last = Reverted("makeMove")
  /\ games[0].status = WaitingForMoves
  /\ games[0].player1Committed
  /\ ~games[0].player2Committed
  /\ games[0].encryptedMove1 = asEuint8(2)

\* --------------------------------------------------------------------- C12
\* C12: joinGame(g) by caller c succeeds exactly when game g has been created,
\* its player2 is unset, c is not its player1 and its status is
\* WaitingForPlayers; a successful call sets player2 of g to c and the status
\* of g to WaitingForMoves, emits PlayerJoined(g, c), and changes nothing
\* else.
C12_JoinGame ==
  [][last'.op = "joinGame" =>
      \A c \in Users, g \in AllGameIds :
        JoinGame(c, g) =>
          LET game == games[g] IN
          /\ last'.ok <=> /\ g < gameCounter
                          /\ game.player2 = ZeroAddress
                          /\ c # game.player1
                          /\ game.status = WaitingForPlayers
          /\ last'.ok =>
               /\ games'[g] = [game EXCEPT !.player2 = c,
                                           !.status = WaitingForMoves]
               /\ \A other \in AllGameIds \ {g} : games'[other] = games[other]
               /\ last'.events = <<<<"PlayerJoined", g, c>>>>
               /\ UNCHANGED <<requestIdToGameId, gameCounter, counterRequest,
                              requestedHandles, acl>>]_vars

\* An account other than the creator has just joined game 0.
C12_Witness ==
  /\ last = Success("joinGame", <<<<"PlayerJoined", 0, 3>>>>, {})
  /\ games[0].player1 \notin {ZeroAddress, 3}
  /\ games[0].player2 = 3
  /\ games[0].status = WaitingForMoves

\* --------------------------------------------------------------------- C13
\* C13: makeMove(g) by caller c fails when c is neither player of g, when
\* c's committed flag is already set, or when the status of g is not
\* WaitingForMoves.  A successful call stores the move in c's slot, sets c's
\* flag, moves the status to MovesCommitted if the other player's flag was
\* already set and leaves it WaitingForMoves otherwise, and changes nothing
\* else in the contract's storage, whichever player commits first.  The
\* status of a game becomes MovesCommitted in exactly the step in which its
\* second flag becomes true.
C13_MakeMove ==
  /\ [](\A g \in AllGameIds :
          /\ games[g].status = WaitingForMoves => ~BothCommitted(games[g])
          /\ games[g].status = MovesCommitted => BothCommitted(games[g]))
  /\ [][/\ \A g \in AllGameIds :
            (games[g].status # MovesCommitted
               /\ games'[g].status = MovesCommitted)
            <=> (~BothCommitted(games[g]) /\ BothCommitted(games'[g]))
        /\ last'.op = "makeMove" =>
            \A c \in Users, g \in AllGameIds,
               plain \in 0..MaxMove, proofOk \in BOOLEAN :
              MakeMove(c, g, plain, proofOk) =>
                LET game == games[g]
                    expected ==
                      IF c = game.player1
                      THEN [game EXCEPT
                              !.encryptedMove1 = plain,
                              !.player1Committed = TRUE,
                              !.status = IF game.player2Committed
                                         THEN MovesCommitted
                                         ELSE WaitingForMoves]
                      ELSE [game EXCEPT
                              !.encryptedMove2 = plain,
                              !.player2Committed = TRUE,
                              !.status = IF game.player1Committed
                                         THEN MovesCommitted
                                         ELSE WaitingForMoves]
                IN /\ (\/ ~IsPlayer(game, c)
                       \/ CommittedBy(game, c)
                       \/ game.status # WaitingForMoves) => ~last'.ok
                   /\ last'.ok =>
                        /\ games'[g] = expected
                        /\ \A other \in AllGameIds \ {g} :
                             games'[other] = games[other]
                        /\ UNCHANGED <<requestIdToGameId, gameCounter,
                                       counterRequest, requestedHandles>>]_vars

\* Player 2 has committed first: one flag is set and the game still waits
\* for the other move.
C13_Witness ==
  /\ last = Success("makeMove",
                    <<<<"MoveMade", 0, games[0].player2, FALSE>>>>, {})
  /\ games[0].player2Committed
  /\ ~games[0].player1Committed
  /\ games[0].encryptedMove2 = asEuint8(2)
  /\ games[0].status = WaitingForMoves

\* --------------------------------------------------------------------- C14
\* C14: once a player's committed flag is true in a game it stays true, and
\* the move stored for that player is never replaced: no step changes the
\* move slot of a player whose flag is set, whatever transaction it is.
C14_WriteOnce ==
  [][\A g \in AllGameIds :
       /\ games[g].player1Committed =>
            /\ games'[g].player1Committed
            /\ games'[g].encryptedMove1 = games[g].encryptedMove1
       /\ games[g].player2Committed =>
            /\ games'[g].player2Committed
            /\ games'[g].encryptedMove2 = games[g].encryptedMove2]_vars

\* Player 1 has committed scissors and the game has been resolved since:
\* the stored move is still the one committed.
C14_Witness ==
  /\ games[0].player1Committed
  /\ games[0].encryptedMove1 = asEuint8(2)
  /\ games[0].encryptedMove2 = asEuint8(0)
  /\ games[0].status = ResultsDecrypted
  /\ Issued(games[0].requestId)

\* --------------------------------------------------------------------- C15
\* The game has had a successful requestGameResolution: an issued request id
\* is recorded for it.
Requested(g) ==
  \E r \in ReqIds : Issued(r) /\ requestIdToGameId[r] = g

\* C15: requestGameResolution succeeds at most once per game.  No two issued
\* request ids (one is issued with each DecryptionRequested event) belong to
\* the same game; a game that has had a successful request is in
\* DecryptionInProgress or ResultsDecrypted; and every requestGameResolution
\* on such a game, by any caller, fails and emits nothing.
C15_RequestAtMostOnce ==
  /\ [](\A r1 \in ReqIds, r2 \in ReqIds :
          (Issued(r1) /\ Issued(r2) /\ r1 # r2)
          => requestIdToGameId[r1] # requestIdToGameId[r2])
  /\ [](\A g \in AllGameIds :
          Requested(g) =>
            games[g].status \in {DecryptionInProgress, ResultsDecrypted})
  /\ [][last'.op = "requestGameResolution" =>
        \A c \in Users, g \in AllGameIds :
          (Requested(g) /\ RequestGameResolution(c, g))
          => (~last'.ok /\ last'.events = <<>>)]_vars

\* A second request has just failed while game 0, requested and resolved
\* earlier, and game 1, requested and pending, both hold their request ids.
C15_Witness ==
  /\ last = Reverted("requestGameResolution")
  /\ Requested(0) /\ games[0].status = ResultsDecrypted
  /\ Requested(1) /\ games[1].status = DecryptionInProgress

\* --------------------------------------------------------------------- C16
\* C16: requestGameResolution(g) by caller c succeeds exactly when the status
\* of g is MovesCommitted and c is player1 or player2 of g, so either player
\* may request; a call by any other address on a MovesCommitted game fails
\* and the game is still MovesCommitted, with nothing changed.
C16_RequestGuard ==
  [][last'.op = "requestGameResolution" =>
      \A c \in Users, g \in AllGameIds :
        RequestGameResolution(c, g) =>
          LET game == games[g] IN
          /\ last'.ok <=> /\ game.status = MovesCommitted
                          /\ c \in {game.player1, game.player2}
          /\ (/\ game.status = MovesCommitted
              /\ c \notin {game.player1, game.player2})
             => /\ games'[g].status = MovesCommitted
                /\ UNCHANGED storage]_vars

\* An account that plays in neither seat has asked for the resolution of
\* game 0: the call has failed and the game is still MovesCommitted.
C16_Witness ==
  /\ last = Reverted("requestGameResolution")
  /\ games[0].status = MovesCommitted
  /\ {games[0].player1, games[0].player2} = {1, 3}

\* --------------------------------------------------------------------- C17
\* C17: a successful requestGameResolution(g) that obtained the request id r
\* from FHE.requestDecryption (r was not issued before) ends with
\* games[g].requestId = r, requestIdToGameId[r] = g and the status of g
\* DecryptionInProgress, having changed nothing else in the game or the
\* table, and its DecryptionRequested event carries (g, r); no other step
\* changes the requestId of any game; and a game that has not had a
\* successful request holds the initial requestId, 0.
C17_RequestPostcondition ==
  /\ [](\A g \in AllGameIds : ~Requested(g) => games[g].requestId = 0)
  /\ [][/\ (last'.op = "requestGameResolution" /\ last'.ok) =>
            LET g == last'.events[1][2]
                r == last'.events[1][3]
            IN /\ last'.events = <<<<"DecryptionRequested", g, r>>>>
               /\ r = counterRequest
               /\ ~Issued(r)
               /\ requestedHandles'[r] # <<>>
               /\ games[g].status = MovesCommitted
               /\ games'[g] = [games[g] EXCEPT
                                 !.requestId = r,
                                 !.status = DecryptionInProgress]
               /\ requestIdToGameId' = [requestIdToGameId EXCEPT ![r] = g]
        /\ \A g \in AllGameIds :
             games'[g].requestId # games[g].requestId =>
               /\ last'.op = "requestGameResolution"
               /\ last'.ok
               /\ last'.events[1][2] = g]_vars

\* Game 0 has just obtained request id 1, game 1 having requested before it.
C17_Witness ==
  /\ last = Success("requestGameResolution",
                    <<<<"DecryptionRequested", 0, 1>>>>, {<<0, 2>>})
  /\ games[0].requestId = 1
  /\ requestIdToGameId[1] = 0
  /\ games[0].status = DecryptionInProgress
  /\ requestIdToGameId[0] = 1

\* --------------------------------------------------------------------- C18
\* C18: the ids createGame returns are 0, 1, 2, ... in call order, whatever
\* is called in between.  The counter starts at 0 and only createGame moves
\* it, by one; every createGame succeeds and returns (and announces in
\* GameCreated) the counter's value before the call, an id no earlier call
\* returned; and in every state the ids below the counter are exactly the
\* games that have been created.
C18_CreateGameIds ==
  /\ [](\A g \in AllGameIds :
          g < gameCounter <=> games[g].player1 # ZeroAddress)
  /\ [](last.op = "createGame" => last.ok)
  /\ [][/\ gameCounter' = gameCounter + 1 <=> last'.op = "createGame"
        /\ gameCounter' # gameCounter + 1 => gameCounter' = gameCounter
        /\ last'.op = "createGame" =>
             \E sender \in Users :
               /\ last'.ret = <<gameCounter>>
               /\ last'.events = <<<<"GameCreated", gameCounter, sender>>>>
               /\ games[gameCounter].player1 = ZeroAddress
               /\ games'[gameCounter] = NewGame(sender)
               /\ \A other \in AllGameIds \ {gameCounter} :
                    games'[other] = games[other]]_vars

\* The second game has just been created with id 1, after game 0 was
\* played to the end.
C18_Witness ==
  /\ last = Returned("createGame", <<<<"GameCreated", 1, 2>>>>, <<1>>)
  /\ gameCounter = 2
  /\ games[0].status = ResultsDecrypted
  /\ Requested(0)
  /\ games[1] = NewGame(2)

C20_Parked ==
  [][\A g \in AllGameIds :
       games[g].status = DecryptionInProgress =>
         /\ last'.op = "joinGame" =>
              \A a \in Users : JoinGame(a, g) => ~last'.ok
         /\ last'.op = "makeMove" =>
              \A a \in Users, plain \in 0..MaxMove, proofOk \in BOOLEAN :
                MakeMove(a, g, plain, proofOk) => ~last'.ok
         /\ last'.op = "requestGameResolution" =>
              \A a \in Users : RequestGameResolution(a, g) => ~last'.ok
         /\ last'.op = "gameResolutionCallback" =>
              \A r \in ReqIds \ {games[g].requestId},
                 cleartexts \in Cleartexts, sigOk \in BOOLEAN :
                GameResolutionCallback(r, cleartexts, sigOk)
                => games'[g] = games[g]
         /\ games'[g] # games[g] =>
              /\ last'.op = "gameResolutionCallback"
              /\ last'.ok
              /\ last'.events[1][2] = g
              /\ \E cleartexts \in Cleartexts :
                   GameResolutionCallback(games[g].requestId, cleartexts, TRUE)
              /\ games'[g].status = ResultsDecrypted]_vars

\* Game 0 is still parked while game 1, created after it, has been played
\* and resolved, and a move submitted since has been refused.
C20_Witness ==
  /\ last = Reverted("makeMove")
  /\ games[0].status = DecryptionInProgress
  /\ games[0].requestId = 0
  /\ games[1].status = ResultsDecrypted
  /\ games[1].requestId = 1
  /\ requestIdToGameId[1] = 1
  /\ Issued(1)

\* --------------------------------------------------------------------- C21
\* C21: in every reachable state, for every game, resultsDecrypted is true
\* if and only if the status is ResultsDecrypted, and while resultsDecrypted
\* is false isDraw and player1Wins hold their initial value, false.
C21_ResultFlags ==
  \A g \in AllGameIds :
    /\ games[g].resultsDecrypted <=> games[g].status = ResultsDecrypted
    /\ ~games[g].resultsDecrypted =>
         (~games[g].isDraw /\ ~games[g].player1Wins)

\* One game has its results, a win of player 1, stored and flagged; the
\* other has requested its decryption and holds no result yet.
C21_Witness ==
  /\ games[0].status = ResultsDecrypted
  /\ games[0].resultsDecrypted
  /\ games[0].player1Wins /\ ~games[0].isDraw
  /\ Requested(0)
  /\ games[1].status = DecryptionInProgress
  /\ ~games[1].resultsDecrypted

\* --------------------------------------------------------------------- C22
\* C22: games are never deleted and finished results are stable.  Once
\* getGame(g) succeeds, it succeeds after every step with the same player1,
\* and with the same player2 once player2 is set; once getGameResults(g)
\* succeeds, it returns the same (isDraw, player1Wins, winner) after every
\* step.
C22_StableResults ==
  [][\A g \in AllGameIds :
       /\ getGame(games, g) # <<"revert">> =>
            /\ getGame(games', g) # <<"revert">>
            /\ getGame(games', g)[1] = getGame(games, g)[1]
            /\ getGame(games, g)[2] # ZeroAddress =>
                 getGame(games', g)[2] = getGame(games, g)[2]
       /\ getGameResults(games, g) # <<"revert">> =>
            getGameResults(games', g) = getGameResults(games, g)]_vars

\* --------------------------------------------------------------------- C23
ViewOps ==
  {"getGame", "getGameResults", "isGameReady", "getGameCounter",
   "getGameRequestId"}

\* C23: getGame(g) fails when g was never created; getGameResults(g) fails
\* when g was never created or its resultsDecrypted is false, and otherwise
\* returns the stored isDraw and player1Wins and the winner derived from
\* them (nobody on a draw, else player1 if player1Wins, else player2); and a
\* call of getGame, getGameResults, isGameReady, getGameCounter or
\* getGameRequestId leaves the contract's storage unchanged and emits
\* nothing.
C23_QuerySurface ==
  [][last'.op \in ViewOps =>
      /\ UNCHANGED storage
      /\ last'.events = <<>>
      /\ \A g \in 0..1 :
           LET game == games[g]
               winner == IF game.isDraw THEN ZeroAddress
                         ELSE IF game.player1Wins THEN game.player1
                         ELSE game.player2
           IN /\ (GetGame(g) /\ g >= gameCounter) => ~last'.ok
              /\ GetGameResults(g) =>
                   IF g >= gameCounter \/ ~game.resultsDecrypted
                   THEN ~last'.ok
                   ELSE /\ last'.ok
                        /\ last'.ret = <<game.isDraw, game.player1Wins, winner>>
     ]_vars

\* The results of the finished game have just been read: player 2 won.
C23_Witness ==
  /\ last = Returned("getGameResults", <<>>, <<FALSE, FALSE, games[0].player2>>)
  /\ games[0].player2 # ZeroAddress
  /\ Requested(0)
  /\ games[0].resultsDecrypted

C25_EventOrder ==
  [][(last'.ok /\ last'.events # <<>>) =>
      LET e == last'.events[1]
          g == e[2]
          game == games[g]
      IN /\ Len(last'.events) = 1
         /\ e[1] = "GameCreated" => game = EmptyGame
         /\ e[1] = "PlayerJoined" =>
              /\ game.player1 # ZeroAddress
              /\ game.player2 = ZeroAddress
              /\ game.status = WaitingForPlayers
         /\ e[1] = "MoveMade" =>
              /\ game.status = WaitingForMoves
              /\ IsPlayer(game, e[3])
              /\ ~CommittedBy(game, e[3])
              /\ e[4] <=> e[3] = game.player1
         /\ e[1] = "DecryptionRequested" =>
              /\ game.status = MovesCommitted
              /\ ~Requested(g)
         /\ e[1] = "GameFinished" =>
              game.status = DecryptionInProgress]_vars

\* --------------------------------------------------------------------- C26
\* The plaintext part of the games: every record with its two move handles
\* blanked.
Plaintext(gs) ==
  [g \in AllGameIds |->
     [gs[g] EXCEPT !.encryptedMove1 = 0, !.encryptedMove2 = 0]]

\* C26: move confidentiality.  In every step of createGame, joinGame,
\* makeMove and requestGameResolution, whether the call succeeds, what it
\* emits and returns, and the plaintext state after it (players, status,
\* committed flags, request ids, results, counter, table) are determined by
\* the plaintext state before it, the caller, the game id and the outcome of
\* the proof check; neither the submitted move nor a stored move enters.
\* For makeMove: a call that succeeds is one that the plaintext state
\* accepts, with the outcome computed from it; and when a call fails, no
\* call that the plaintext state accepts fails like it, whatever the move.
\* Hence two executions of the same calls that differ only in the moves
\* agree on all of these at every step.
C26_MoveConfidentiality ==
  [][LET low == Plaintext(games)
         Accepts(lg, sender, proofOk) ==
           /\ lg.status = WaitingForMoves
           /\ IsPlayer(lg, sender)
           /\ proofOk
           /\ ~CommittedBy(lg, sender)
         Unchanged == /\ Plaintext(games') = low
                      /\ UNCHANGED <<requestIdToGameId, gameCounter,
                                     counterRequest>>
     IN
     /\ last'.op = "createGame" =>
          \A sender \in Users :
            CreateGame(sender, gameCounter + 1) =>
              /\ Plaintext(games') =
                   [low EXCEPT ![gameCounter] = NewGame(sender)]
              /\ gameCounter' = gameCounter + 1
              /\ UNCHANGED <<requestIdToGameId, counterRequest>>
              /\ last' = Returned("createGame",
                                  <<<<"GameCreated", gameCounter, sender>>>>,
                                  <<gameCounter>>)
     /\ last'.op = "joinGame" =>
          \A sender \in Users, g \in AllGameIds :
            JoinGame(sender, g) =>
              IF /\ low[g].player1 \notin {ZeroAddress, sender}
                 /\ low[g].player2 = ZeroAddress
                 /\ low[g].status = WaitingForPlayers
              THEN /\ Plaintext(games') =
                        [low EXCEPT ![g].player2 = sender,
                                    ![g].status = WaitingForMoves]
                   /\ UNCHANGED <<requestIdToGameId, gameCounter,
                                  counterRequest>>
                   /\ last' = Success("joinGame",
                                      <<<<"PlayerJoined", g, sender>>>>, {})
              ELSE Unchanged /\ last' = Reverted("joinGame")
     /\ (last'.op = "makeMove" /\ last'.ok) =>
          \A sender \in Users, g \in AllGameIds,
             plain \in 0..MaxMove, proofOk \in BOOLEAN :
            MakeMove(sender, g, plain, proofOk) =>
              LET isPlayer1 == sender = low[g].player1
                  flagged ==
                    IF isPlayer1
                    THEN [low[g] EXCEPT !.player1Committed = TRUE]
                    ELSE [low[g] EXCEPT !.player2Committed = TRUE]
                  after ==
                    IF BothCommitted(flagged)
                    THEN [flagged EXCEPT !.status = MovesCommitted]
                    ELSE flagged
              IN /\ Accepts(low[g], sender, proofOk)
                 /\ Plaintext(games') = [low EXCEPT ![g] = after]
                 /\ UNCHANGED <<requestIdToGameId, gameCounter,
                                counterRequest>>
                 /\ last' = Success("makeMove",
                                    <<<<"MoveMade", g, sender,
                                       isPlayer1>>>>, {})
     /\ (last'.op = "makeMove" /\ ~last'.ok) =>
          /\ Unchanged
          /\ last' = Reverted("makeMove")
          /\ \A sender \in Users, g \in AllGameIds, proofOk \in BOOLEAN :
               Accepts(low[g], sender, proofOk) =>
                 \A plain \in 0..MaxMove :
                   ~MakeMove(sender, g, plain, proofOk)
     /\ last'.op = "requestGameResolution" =>
          \A sender \in Users, g \in AllGameIds :
            RequestGameResolution(sender, g) =>
              IF /\ low[g].status = MovesCommitted
                 /\ IsPlayer(low[g], sender)
              THEN /\ Plaintext(games') =
                        [low EXCEPT ![g].requestId = counterRequest,
                                    ![g].status = DecryptionInProgress]
                   /\ requestIdToGameId' =
                        [requestIdToGameId EXCEPT ![counterRequest] = g]
                   /\ counterRequest' = counterRequest + 1
                   /\ UNCHANGED gameCounter
                   /\ last' = Success("requestGameResolution",
                                      <<<<"DecryptionRequested", g,
                                         counterRequest>>>>,
                                      {<<g, sender>>})
              ELSE Unchanged /\ last' = Reverted("requestGameResolution")
    ]_vars

\* Two moves are stored, one of them outside rock, paper and scissors, and
\* the second submission has been answered like any other.
C26_Witness ==
  /\ last = Success("makeMove",
                    <<<<"MoveMade", 0, games[0].player2, FALSE>>>>, {})
  /\ games[0].encryptedMove1 = asEuint8(3)
  /\ games[0].encryptedMove2 = asEuint8(1)
  /\ games[0].status = MovesCommitted

\* --------------------------------------------------------------------- C27
\* C27: a makeMove whose input proof the backend rejects fails and changes
\* nothing, in particular not the caller's move slot, committed flag or the
\* status; and in every state in which the game is WaitingForMoves and the
\* caller is a player who has not committed, as it still is after the
\* rejected call, a makeMove with a valid proof succeeds and commits the
\* caller.
C27_ProofRejected ==
  [][last'.op = "makeMove" =>
      \A c \in Users, g \in AllGameIds,
         plain \in 0..MaxMove, proofOk \in BOOLEAN :
        MakeMove(c, g, plain, proofOk) =>
          /\ ~proofOk => /\ ~last'.ok
                         /\ UNCHANGED storage
          /\ (/\ proofOk
              /\ games[g].status = WaitingForMoves
              /\ IsPlayer(games[g], c)
              /\ ~CommittedBy(games[g], c))
             => /\ last'.ok
                /\ CommittedBy(games'[g], c)
                /\ plain \in {games'[g].encryptedMove1,
                              games'[g].encryptedMove2}]_vars

\* A move has been refused in a joined game in which nobody has committed:
\* the game still waits for both moves.
C27_Witness ==
  /\ last = Reverted("makeMove")
  /\ games[0].status = WaitingForMoves
  /\ games[0].player2 # ZeroAddress
  /\ ~games[0].player1Committed
  /\ ~games[0].player2Committed

\* --------------------------------------------------------------------- C28
\* C28: progress.  Under the fairness of SpecLive (somebody joins, both
\* players submit a valid move, a player requests the resolution, the
\* oracle delivers every pending request), from every reachable state in
\* which a game has been created the game reaches ResultsDecrypted.
C28_Progress ==
  \A g \in 0..1 :
    (g < gameCounter) ~> (games[g].status = ResultsDecrypted)

\* Game 1 has gone the whole way: joined, both moves, its own request, and
\* the oracle's delivery of that request.
C28_Witness ==
  /\ games[1].status = ResultsDecrypted
  /\ BothCommitted(games[1])
  /\ Requested(1)
  /\ requestIdToGameId[games[1].requestId] = 1
  /\ last.op = "gameResolutionCallback" /\ last.ok
  /\ last.events[1][2] = 1
  /\ <<games[1].isDraw, games[1].player1Wins>>
       = requestedHandles[games[1].requestId]

\* --------------------------------------------------------------------- C29
\* C29: handleSubmitMove sends the makeMove transaction only when the game
\* state it has just fetched shows that player2 has joined, that the status
\* is WaitingForMoves, that the sender is player1 or player2 and that the
\* sender has not committed, and a simulation of the transaction has been
\* run and has passed.
C29_SendGuard ==
  [][last'.op = "handleSubmitMove" =>
      \A address \in Users \cup {ZeroAddress}, selected \in BOOLEAN,
         gameId \in 0..1, fetchOk \in BOOLEAN, ctOk \in BOOLEAN,
         publicClient \in BOOLEAN, proofOk \in BOOLEAN :
        (/\ HandleSubmitMove(address, selected, gameId, fetchOk, ctOk,
                             publicClient, proofOk)
         /\ last'.ret[1] = "sent")
        => /\ fetchOk
           /\ games[gameId].player2 # ZeroAddress
           /\ games[gameId].status = WaitingForMoves
           /\ IsPlayer(games[gameId], address)
           /\ ~CommittedBy(games[gameId], address)
           /\ publicClient
           /\ simulateContract(games, address, gameId, proofOk)]_vars

\* --------------------------------------------------------------------- C30
\* C30: for every pair of values (m1, m2) the two move handles of a game
\* hold, values outside {0, 1, 2} included, when the oracle delivers the
\* decryption of the game's request, GameFinished and getGameResults name
\* player2 as the winner only if player 2's move beats player 1's, i.e.
\* only if (m1, m2) is (2,0), (0,1) or (1,2).
C30_Player2WinsOnlyIfBeats ==
  [][(last'.op = "gameResolutionCallback" /\ last'.ok) =>
      \A requestId \in ReqIds :
        LET gameId == requestIdToGameId[requestId]
            game == games[gameId]
            m1 == game.encryptedMove1
            m2 == game.encryptedMove2
        IN (/\ Issued(requestId)
            /\ GameResolutionCallback(requestId, requestedHandles[requestId],
                                      TRUE)
            /\ \/ last'.events[1][3] = game.player2
               \/ getGameResults(games', gameId)[3] = game.player2)
           => <<m2, m1>> \in Beats]_vars

\* ------------------------------------- determineWinner (fhevm-utils.ts l.22)
\* The client-side reference evaluation of two moves.
\* Mutant: the pair scissors against paper is missing from the test.
determineWinner_NoScissors(move1, move2) ==
  IF move1 = move2 THEN "draw"
  ELSE IF \/ (move1 = 0 /\ move2 = 2)
          \/ (move1 = 1 /\ move2 = 0)
       THEN "player1"
       ELSE "player2"

determineWinner(move1, move2) ==
  IF move1 = move2 THEN "draw"
  ELSE IF \/ (move1 = 0 /\ move2 = 2)
          \/ (move1 = 1 /\ move2 = 0)
          \/ (move1 = 2 /\ move2 = 1)
       THEN "player1"
       ELSE "player2"

\* --------------------------------------------------------------------- C31
\* C31: for every pair of move values, in or out of {0,1,2}, the two values
\* requestGameResolution computes are never both true, and a callback that
\* delivers the decryption of the two requested handles with a valid proof
\* never stores isDraw = TRUE together with player1Wins = TRUE.
C31_NeverBoth ==
  \A requestId \in ReqIds :
    Issued(requestId) => requestedHandles[requestId] # <<TRUE, TRUE>>

C31_HonestDelivery ==
  last'.op = "gameResolutionCallback" /\ last'.ok =>
    \A requestId \in ReqIds :
      LET gameId == requestIdToGameId[requestId]
      IN (/\ Issued(requestId)
          /\ GameResolutionCallback(requestId, requestedHandles[requestId],
                                    TRUE))
         => ~(games'[gameId].isDraw /\ games'[gameId].player1Wins)

C31_MutuallyExclusive == []C31_NeverBoth /\ [][C31_HonestDelivery]_vars

\* Two equal moves outside {0,1,2} have been evaluated and the oracle has
\* delivered the result: a draw, and no win for player 1.
C31_Witness ==
  /\ games[0].encryptedMove1 = MaxMove
  /\ games[0].encryptedMove2 = MaxMove
  /\ MaxMove \notin ValidMoves
  /\ BothCommitted(games[0])
  /\ Issued(games[0].requestId)
  /\ requestedHandles[games[0].requestId] = <<TRUE, FALSE>>
  /\ last.op = "gameResolutionCallback" /\ last.ok
  /\ games[0].status = ResultsDecrypted
  /\ games[0].isDraw /\ ~games[0].player1Wins

\* --------------------------------------------------------------------- C32
\* C32: in every reachable state and for every created game, status
\* WaitingForPlayers implies that neither player has committed, status
\* WaitingForMoves that at most one has, and status MovesCommitted,
\* DecryptionInProgress or ResultsDecrypted that both have.
C32_StatusCommitment ==
  \A gameId \in AllGameIds :
    gameId < gameCounter =>
      LET game == games[gameId] IN
      /\ game.status = WaitingForPlayers =>
           ~game.player1Committed /\ ~game.player2Committed
      /\ game.status = WaitingForMoves =>
           ~(game.player1Committed /\ game.player2Committed)
      /\ game.status \in {MovesCommitted, DecryptionInProgress,
                          ResultsDecrypted} => BothCommitted(game)

\* --------------------------------------------------------------------- C33
\* C33: in every reachable state and for every created game, player1 is set
\* and player2 is unset exactly while the status is WaitingForPlayers and,
\* when set, differs from player1; in every step player1 of a created game
\* does not change, and player2 changes only from unset to the caller of a
\* successful joinGame.
C33_ParticipantState ==
  \A gameId \in AllGameIds :
    gameId < gameCounter =>
      LET game == games[gameId] IN
      /\ game.player1 # ZeroAddress
      /\ (game.player2 = ZeroAddress) <=> (game.status = WaitingForPlayers)
      /\ game.player2 # ZeroAddress => game.player2 # game.player1

C33_ParticipantStep ==
  \A gameId \in AllGameIds :
    gameId < gameCounter =>
      /\ games'[gameId].player1 = games[gameId].player1
      /\ games'[gameId].player2 # games[gameId].player2 =>
           /\ games[gameId].player2 = ZeroAddress
           /\ last'.op = "joinGame" /\ last'.ok
           /\ last'.events = <<<<"PlayerJoined", gameId, games'[gameId].player2>>>>

C33_Participants == []C33_ParticipantState /\ [][C33_ParticipantStep]_vars

\* --------------------------------------------------------------------- C34
\* C34: in every reachable state a slot that holds anything but the zero
\* values has an id below gameCounter; gameCounter starts at 0 and grows by
\* one in exactly the steps that are a successful createGame; and a
\* successful createGame writes a fresh record (caller as player1, player2
\* unset, no commitment, WaitingForPlayers, resultsDecrypted false) into a
\* slot that held the zero values, leaving every other slot as it was.
C34_OnlyAllocatedSlots ==
  \A gameId \in AllGameIds : games[gameId] # EmptyGame => gameId < gameCounter

C34_CreateStep ==
  /\ gameCounter' # gameCounter <=> (last'.op = "createGame" /\ last'.ok)
  /\ last'.op = "createGame" /\ last'.ok =>
       /\ gameCounter' = gameCounter + 1
       /\ games[gameCounter] = EmptyGame
       /\ \E sender \in Users : games'[gameCounter] = NewGame(sender)
       /\ \A gameId \in AllGameIds :
            gameId # gameCounter => games'[gameId] = games[gameId]

C34_Allocation == []C34_OnlyAllocatedSlots /\ [][C34_CreateStep]_vars

\* --------------------------------------------------------------------- C35
\* C35: for a game id at or above gameCounter (never created), joinGame,
\* makeMove and requestGameResolution fail for every caller and change
\* nothing, getGame and getGameResults fail, and in every reachable state
\* the slot still has status WaitingForPlayers and resultsDecrypted false.
C35_SlotUntouched ==
  \A gameId \in AllGameIds :
    gameId >= gameCounter =>
      /\ games[gameId].status = WaitingForPlayers
      /\ ~games[gameId].resultsDecrypted

C35_CallsFail ==
  \A gameId \in 0..1 :
    gameId >= gameCounter =>
      /\ last'.op = "joinGame" =>
           \A sender \in Users :
             JoinGame(sender, gameId) => ~last'.ok /\ UNCHANGED storage
      /\ last'.op = "makeMove" =>
           \A sender \in Users, proofOk \in BOOLEAN :
             MakeMove(sender, gameId, 1, proofOk) =>
               ~last'.ok /\ UNCHANGED storage
      /\ last'.op = "requestGameResolution" =>
           \A sender \in Users :
             RequestGameResolution(sender, gameId) =>
               ~last'.ok /\ UNCHANGED storage
      /\ GetGame(gameId) => ~last'.ok
      /\ GetGameResults(gameId) => ~last'.ok

C35_NeverCreated == []C35_SlotUntouched /\ [][C35_CallsFail]_vars

\* --------------------------------------------------------------------- C36
\* C36: for all moves (m1, m2) in {0,1,2} x {0,1,2}, determineWinner(m1, m2)
\* is "draw" exactly when the contract's isDraw is true, "player1" exactly
\* when its player1Wins is true and "player2" exactly when both are false;
\* this holds for the two values computed for every requested game, and the
\* winner named by a callback delivering them is the player determineWinner
\* names (nobody on a draw).
C36_Agrees(m1, m2, isDraw, player1Wins) ==
  /\ determineWinner(m1, m2) = "draw" <=> isDraw
  /\ determineWinner(m1, m2) = "player1" <=> player1Wins
  /\ determineWinner(m1, m2) = "player2" <=> (~isDraw /\ ~player1Wins)

C36_Evaluation ==
  /\ \A m1 \in ValidMoves, m2 \in ValidMoves :
       C36_Agrees(m1, m2, IsDrawEncrypted(m1, m2),
                  Player1WinsEncrypted(m1, m2))
  /\ \A requestId \in ReqIds :
       Issued(requestId) =>
         LET game == games[requestIdToGameId[requestId]]
             m1 == game.encryptedMove1
             m2 == game.encryptedMove2
         IN (m1 \in ValidMoves /\ m2 \in ValidMoves) =>
              C36_Agrees(m1, m2, requestedHandles[requestId][1],
                         requestedHandles[requestId][2])

C36_Delivery ==
  last'.op = "gameResolutionCallback" /\ last'.ok =>
    \A requestId \in ReqIds :
      LET gameId == requestIdToGameId[requestId]
          game == games[gameId]
          m1 == game.encryptedMove1
          m2 == game.encryptedMove2
          reference == determineWinner(m1, m2)
          winner == IF reference = "draw" THEN ZeroAddress
                    ELSE IF reference = "player1" THEN game.player1
                    ELSE game.player2
      IN (/\ Issued(requestId)
          /\ m1 \in ValidMoves /\ m2 \in ValidMoves
          /\ GameResolutionCallback(requestId, requestedHandles[requestId],
                                    TRUE))
         => /\ C36_Agrees(m1, m2, games'[gameId].isDraw,
                          games'[gameId].player1Wins)
            /\ Winner(games'[gameId]) = winner

C36_ReferenceAgrees == []C36_Evaluation /\ [][C36_Delivery]_vars

\* Paper against scissors has been evaluated and delivered: the reference
\* says player 2, the contract stores neither a draw nor a win of player 1.
C36_Witness ==
  /\ games[0].encryptedMove1 = 1
  /\ games[0].encryptedMove2 = 2
  /\ determineWinner(1, 2) = "player2"
  /\ BothCommitted(games[0])
  /\ Issued(games[0].requestId)
  /\ requestedHandles[games[0].requestId] = <<FALSE, FALSE>>
  /\ last.op = "gameResolutionCallback" /\ last.ok
  /\ games[0].status = ResultsDecrypted
  /\ ~games[0].isDraw /\ ~games[0].player1Wins
  /\ Winner(games[0]) = games[0].player2

\* --------------------------------------------------------------------- C37
\* C37: once the user's createGame transaction is mined, the game id the
\* interface has adopted is the id of a game whose player1 is that user, and
\* an id is eventually adopted, whatever the interleaving of the
\* transaction, the polls of the counter and the createGame calls of others.
C37_AdoptedIsOwn ==
  (ui.createGameTx = "mined" /\ ui.currentGameId # <<>>) =>
    games[ui.currentGameId[1]].player1 = ui.address

C37_EventuallyAdopted ==
  (ui.createGameTx = "mined") ~> (ui.currentGameId # <<>>)

C37_Attribution == []C37_AdoptedIsOwn /\ C37_EventuallyAdopted

====
